---- MODULE Spec2Model ----
(***************************************************************************)
(* Model of backend/app.py: a FastAPI application with two GET endpoints,  *)
(* "/" (root) and "/proposals" (get_proposals), behind a CORS middleware.  *)
(* get_proposals opens a sqlite3 connection to DB_PATH, runs CREATE TABLE  *)
(* IF NOT EXISTS, runs SELECT *, fetches all rows, closes the connection   *)
(* and returns {"data": rows}.  Nothing in the handler catches exceptions: *)
(* a raising statement leaves the handler at that line, conn.close() is    *)
(* not reached, and the framework answers 500.                             *)
(*                                                                         *)
(* The database file is shared with external processes (the writer that    *)
(* populates the table, and whatever makes the file unreachable or         *)
(* locked); these are the Ext* and Env* actions.                           *)
(***************************************************************************)
EXTENDS Integers, Sequences, FiniteSets, TLC

\* ------------------------------------------------------------- bounds
NumReqs == 2        \* request slots that can be in flight at once
MaxId   == 2        \* row ids the external writer uses: 1..MaxId

Reqs   == 1..NumReqs
Ids    == 1..MaxId
Titles == {"Alpha", "Beta"}

\* Request headers that matter to the CORS middleware: no Origin header,
\* an Origin header, an Origin header together with a Cookie header.
Hdrs   == {"none", "origin", "cookie"}
Origin == "http://example.com"

Endpoints == {"/", "/proposals"}

\* ------------------------------------------------------------- state
VARIABLES
    tableExists,   \* the database file has a proposals table
    table,         \* its rows: a set of [id, title] with unique ids
    pathOK,        \* DB_PATH can be opened by sqlite3.connect
    locked,        \* another process holds the file locked: statements fail
    up,            \* the server process is running
    pc,            \* pc[r]: the line request r is at
    ep,            \* ep[r]: the path requested
    hdr,           \* hdr[r]: the request's headers (see Hdrs)
    conn,          \* conn[r]: "none" | "open" | "closed"
    view,          \* view[r]: the rows the SELECT's read transaction sees
    rows,          \* rows[r]: the handler's local `rows`
    exc,           \* exc[r]: the exception that left the handler, or "none"
    resp,          \* resp[r]: the response sent to the client
    since          \* since[r]: history of the store since request r arrived:
                   \*   "absent"  it had no table then, no external change since
                   \*   "present" it had the table then, no external change since
                   \*   "rows"    an external process has changed rows since
                   \*   "schema"  an external process has changed the schema since

vars == <<tableExists, table, pathOK, locked, up, pc, ep, hdr, conn, view,
          rows, exc, resp, since>>

store == <<tableExists, table>>
env   == <<pathOK, locked>>

\* ------------------------------------------------------------- values
Row(i, t) == [id |-> i, title |-> t]

AllRows == {Row(i, t) : i \in Ids, t \in Titles}

\* id INTEGER PRIMARY KEY: no two rows share an id
UniqueIds(t) == \A p, q \in t : p.id = q.id => p = q

Tables == {t \in SUBSET AllRows : UniqueIds(t)}

NoResp ==
    [status |-> 0, kind |-> "none", message |-> "", data |-> <<>>,
     acao |-> "", acac |-> FALSE]

\* The fixed status string of root() (its leading check-mark emoji left out).
Message == "Backend up & running with LiteFS!"

\* ------------------------------------------------------------- the store
\* Mutant of Scan: the scan visits the rows by descending id.
ScanDescending(t) ==
    [i \in 1..Cardinality(t) |->
        CHOOSE p \in t : Cardinality({q \in t : q.id > p.id}) = i - 1]

\* SELECT * FROM proposals, no ORDER BY: a full scan of a rowid table, whose
\* rowid is the INTEGER PRIMARY KEY, visits the rows by ascending id.
Scan(t) ==
    [i \in 1..Cardinality(t) |->
        CHOOSE p \in t : Cardinality({q \in t : q.id < p.id}) = i - 1]

\* The driver hands each row over as a tuple in column order (id, title).
RowTuple(p) == <<p.id, p.title>>

\* Mutants of CreateIfNotExists: the new table is seeded with a sample row;
\* the statement's effect never reaches the file; the table is dropped and
\* created again on every call.
CreateSeeded(exists, t) ==
    IF exists THEN <<TRUE, t>> ELSE <<TRUE, {Row(1, "Alpha")}>>

CreateNotCommitted(exists, t) == <<exists, t>>

CreateDropFirst(exists, t) == <<TRUE, {}>>

\* CREATE TABLE IF NOT EXISTS on a store <<exists, rows>>: the store after it.
CreateIfNotExists(exists, t) == IF exists THEN <<TRUE, t>> ELSE <<TRUE, {}>>

\* The rows a SELECT that starts now will read.
ReadView(r) == table

\* Mutants of FetchRows: one module-level cursor shared by all requests, so
\* that a result set another request has fetched is exhausted; and rows read
\* from the table as it is at fetchall, not as it was at execute.
FetchRowsShared(r) ==
    IF \E q \in Reqs \ {r} :
          pc[q] \in {"close", "done"} /\ ep[q] = "/proposals" /\ exc[q] = "none"
    THEN <<>>
    ELSE [i \in 1..Cardinality(view[r]) |-> RowTuple(Scan(view[r])[i])]

FetchRowsLive(r) == [i \in 1..Cardinality(table) |-> RowTuple(Scan(table)[i])]

\* cur.fetchall(): every row of the result set the statement is reading.
FetchRows(r) == [i \in 1..Cardinality(view[r]) |-> RowTuple(Scan(view[r])[i])]

\* ------------------------------------------------------------- responses
\* A dict returned by a handler becomes a 200 JSON response; a tuple is
\* encoded as a JSON array, element by element.
JsonArray(tup) == [i \in 1..Len(tup) |-> tup[i]]

RootResponse ==
    [status |-> 200, kind |-> "message", message |-> Message, data |-> <<>>,
     acao |-> "", acac |-> FALSE]

DataResponse(rs) ==
    [status |-> 200, kind |-> "data", message |-> "",
     data |-> [i \in 1..Len(rs) |-> JsonArray(rs[i])],
     acao |-> "", acac |-> FALSE]

\* CORSMiddleware(allow_origins=["*"], allow_credentials=True): a response
\* that passes through it for a request with an Origin header gets
\* Access-Control-Allow-Origin "*" (the origin itself when the request has a
\* cookie) and Access-Control-Allow-Credentials "true"; a request without
\* an Origin header is passed through untouched.
CorsSend(rsp, h) ==
    IF h = "none" THEN rsp
    ELSE [rsp EXCEPT !.acao = IF h = "cookie" THEN Origin ELSE "*",
                     !.acac = TRUE]

\* Mutant of ServerErrorResponse: the fault is swallowed and an empty listing
\* is returned.
ServerErrorSwallowed(h) ==
    [status |-> 200, kind |-> "data", message |-> "", data |-> <<>>,
     acao |-> "", acac |-> FALSE]

\* An exception that leaves a handler is not caught by the application; it
\* reaches the server-error layer of FastAPI(), which lies outside the
\* middleware added with add_middleware and sends a plain-text 500 for the
\* request with headers h.
ServerErrorResponse(h) ==
    [status |-> 500, kind |-> "error", message |-> "Internal Server Error",
     data |-> <<>>, acao |-> "", acac |-> FALSE]

\* ------------------------------------------------------------- Init
Init ==
    /\ tableExists = FALSE
    /\ table = {}
    /\ pathOK = TRUE
    /\ locked = FALSE
    /\ up = TRUE
    /\ pc = [r \in Reqs |-> "idle"]
    /\ ep = [r \in Reqs |-> "/"]
    /\ hdr = [r \in Reqs |-> "none"]
    /\ conn = [r \in Reqs |-> "none"]
    /\ view = [r \in Reqs |-> {}]
    /\ rows = [r \in Reqs |-> <<>>]
    /\ exc = [r \in Reqs |-> "none"]
    /\ resp = [r \in Reqs |-> NoResp]
    /\ since = [r \in Reqs |-> "present"]

\* ------------------------------------------------------------- requests
\* A request for path e with headers h arrives and is dispatched.
Start(r, e, h) ==
    /\ up
    /\ pc[r] = "idle"
    /\ pc' = [pc EXCEPT ![r] = IF e = "/" THEN "root" ELSE "connect"]
    /\ ep' = [ep EXCEPT ![r] = e]
    /\ hdr' = [hdr EXCEPT ![r] = h]
    /\ since' = [since EXCEPT ![r] =
                    IF e = "/proposals" /\ ~tableExists THEN "absent"
                    ELSE "present"]
    /\ UNCHANGED <<store, env, up, conn, view, rows, exc, resp>>

\* A statement of get_proposals raises e: the rest of the handler is skipped
\* (conn.close() included) and the client gets the server-error response.
\* The server process stays up.
Raise(r, e) ==
    /\ exc' = [exc EXCEPT ![r] = e]
    /\ resp' = [resp EXCEPT ![r] = ServerErrorResponse(hdr[r])]
    /\ pc' = [pc EXCEPT ![r] = "done"]
    /\ UNCHANGED up

\* Mutant of Root: the health check opens the database first.
RootChecksDb(r) ==
    /\ up
    /\ pc[r] = "root"
    /\ IF pathOK
       THEN /\ resp' = [resp EXCEPT ![r] = CorsSend(RootResponse, hdr[r])]
            /\ pc' = [pc EXCEPT ![r] = "done"]
            /\ UNCHANGED <<exc, up>>
       ELSE Raise(r, "open")
    /\ UNCHANGED <<store, env, ep, hdr, conn, view, rows, since>>

\* root(): return {"message": ...}
Root(r) ==
    /\ up
    /\ pc[r] = "root"
    /\ resp' = [resp EXCEPT ![r] = CorsSend(RootResponse, hdr[r])]
    /\ pc' = [pc EXCEPT ![r] = "done"]
    /\ UNCHANGED <<store, env, up, ep, hdr, conn, view, rows, exc, since>>

\* conn = sqlite3.connect(DB_PATH); cur = conn.cursor()
Connect(r) ==
    /\ up
    /\ pc[r] = "connect"
    /\ IF pathOK
       THEN /\ conn' = [conn EXCEPT ![r] = "open"]
            /\ pc' = [pc EXCEPT ![r] = "create"]
            /\ UNCHANGED <<exc, resp, up>>
       ELSE /\ Raise(r, "open")
            /\ UNCHANGED conn
    /\ UNCHANGED <<store, env, ep, hdr, view, rows, since>>

\* cur.execute("CREATE TABLE IF NOT EXISTS proposals (...)"): DDL runs in
\* autocommit, so the new table is in the file when execute returns.
CreateTable(r) ==
    /\ up
    /\ pc[r] = "create"
    /\ IF locked
       THEN /\ Raise(r, "locked")
            /\ UNCHANGED store
       ELSE /\ tableExists' = CreateIfNotExists(tableExists, table)[1]
            /\ table' = CreateIfNotExists(tableExists, table)[2]
            /\ pc' = [pc EXCEPT ![r] = "select"]
            /\ UNCHANGED <<exc, resp, up>>
    /\ UNCHANGED <<env, ep, hdr, conn, view, rows, since>>

\* cur.execute("SELECT * FROM proposals"): the statement starts its read
\* transaction, which sees the table as it is now until the rows are read.
Select(r) ==
    /\ up
    /\ pc[r] = "select"
    /\ IF locked
       THEN /\ Raise(r, "locked")
            /\ UNCHANGED view
       ELSE IF ~tableExists
       THEN /\ Raise(r, "notable")
            /\ UNCHANGED view
       ELSE /\ view' = [view EXCEPT ![r] = ReadView(r)]
            /\ pc' = [pc EXCEPT ![r] = "fetch"]
            /\ UNCHANGED <<exc, resp, up>>
    /\ UNCHANGED <<store, env, ep, hdr, conn, rows, since>>

\* rows = cur.fetchall()
FetchAll(r) ==
    /\ up
    /\ pc[r] = "fetch"
    /\ rows' = [rows EXCEPT ![r] = FetchRows(r)]
    /\ pc' = [pc EXCEPT ![r] = "close"]
    /\ UNCHANGED <<store, env, up, ep, hdr, conn, view, exc, resp, since>>

\* conn.close(); return {"data": rows}
CloseReturn(r) ==
    /\ up
    /\ pc[r] = "close"
    /\ conn' = [conn EXCEPT ![r] = "closed"]
    /\ resp' = [resp EXCEPT ![r] = CorsSend(DataResponse(rows[r]), hdr[r])]
    /\ pc' = [pc EXCEPT ![r] = "done"]
    /\ UNCHANGED <<store, env, up, ep, hdr, view, rows, exc, since>>

\* The connection object of a handler that raised is closed only when the
\* runtime finalizes it, some time after the response.
Finalize(r) ==
    /\ pc[r] = "done"
    /\ conn[r] = "open"
    /\ conn' = [conn EXCEPT ![r] = "closed"]
    /\ UNCHANGED <<store, env, up, pc, ep, hdr, view, rows, exc, resp, since>>

\* The client has its response; the slot serves the next request.
Reset(r) ==
    /\ pc[r] = "done"
    /\ conn[r] # "open"
    /\ pc' = [pc EXCEPT ![r] = "idle"]
    /\ ep' = [ep EXCEPT ![r] = "/"]
    /\ hdr' = [hdr EXCEPT ![r] = "none"]
    /\ conn' = [conn EXCEPT ![r] = "none"]
    /\ view' = [view EXCEPT ![r] = {}]
    /\ rows' = [rows EXCEPT ![r] = <<>>]
    /\ exc' = [exc EXCEPT ![r] = "none"]
    /\ resp' = [resp EXCEPT ![r] = NoResp]
    /\ since' = [since EXCEPT ![r] = "present"]
    /\ UNCHANGED <<store, env, up>>

Handler(r) ==
    \/ Root(r)
    \/ Connect(r)
    \/ CreateTable(r)
    \/ Select(r)
    \/ FetchAll(r)
    \/ CloseReturn(r)

\* ------------------------------------------------------------- environment
\* History: every listing request in the system records the external change.
Noted(kind) ==
    [r \in Reqs |->
        IF pc[r] = "idle" \/ ep[r] = "/" THEN since[r]
        ELSE IF kind = "schema" \/ since[r] = "schema" THEN "schema"
        ELSE "rows"]

ExtFrame == UNCHANGED <<env, up, pc, ep, hdr, conn, view, rows, exc, resp>>

\* The external collaborator creates the table.
ExtCreate ==
    /\ ~tableExists
    /\ tableExists' = TRUE
    /\ table' = {}
    /\ since' = Noted("schema")
    /\ ExtFrame

\* Another process drops the table.
ExtDrop ==
    /\ tableExists
    /\ tableExists' = FALSE
    /\ table' = {}
    /\ since' = Noted("schema")
    /\ ExtFrame

\* The external collaborator inserts row (i, t).
ExtInsert(i, t) ==
    /\ tableExists
    /\ \A p \in table : p.id # i
    /\ table' = table \cup {Row(i, t)}
    /\ since' = Noted("rows")
    /\ UNCHANGED tableExists
    /\ ExtFrame

\* The external collaborator deletes row i.
ExtDelete(i) ==
    /\ \E p \in table : p.id = i
    /\ table' = {p \in table : p.id # i}
    /\ since' = Noted("rows")
    /\ UNCHANGED tableExists
    /\ ExtFrame

\* DB_PATH becomes unreachable (directory missing or not writable) or
\* reachable again.
EnvPath ==
    /\ pathOK' = ~pathOK
    /\ UNCHANGED <<store, locked, up, pc, ep, hdr, conn, view, rows, exc,
                   resp, since>>

\* Another process takes or releases a lock on the database file.
EnvLock ==
    /\ locked' = ~locked
    /\ UNCHANGED <<store, pathOK, up, pc, ep, hdr, conn, view, rows, exc,
                   resp, since>>

\* ------------------------------------------------------------- Next
\* Spec: clients that send no Origin header, against a store whose rows and
\* schema external processes change at any time.
Next ==
    \/ \E r \in Reqs, e \in Endpoints : Start(r, e, "none")
    \/ \E r \in Reqs : Handler(r)
    \/ \E r \in Reqs : Finalize(r)
    \/ \E r \in Reqs : Reset(r)
    \/ ExtCreate
    \/ ExtDrop
    \/ \E i \in Ids, t \in Titles : ExtInsert(i, t)
    \/ \E i \in Ids : ExtDelete(i)
    \/ EnvPath
    \/ EnvLock

Spec == Init /\ [][Next]_vars

\* SpecHeaders: clients with every kind of headers, against a store whose
\* table stays empty (no external process writes rows).
NextHeaders ==
    \/ \E r \in Reqs, e \in Endpoints, h \in Hdrs : Start(r, e, h)
    \/ \E r \in Reqs : Handler(r)
    \/ \E r \in Reqs : Finalize(r)
    \/ \E r \in Reqs : Reset(r)
    \/ ExtCreate
    \/ ExtDrop
    \/ EnvPath
    \/ EnvLock

SpecHeaders == Init /\ [][NextHeaders]_vars

TypeOK ==
    /\ tableExists \in BOOLEAN
    /\ table \in Tables
    /\ (~tableExists => table = {})
    /\ \A r \in Reqs : conn[r] \in {"none", "open", "closed"}

\* ------------------------------------------------------------- properties
Listing(r) == ep[r] = "/proposals"
Done(r)    == pc[r] = "done"
Ok(r)      == Done(r) /\ Listing(r) /\ resp[r].status = 200
Faulted(r) == Done(r) /\ exc[r] # "none"

\* No external process has changed the store since request r arrived.
Quiet(r) == since[r] \in {"absent", "present"}

\* Some request moves in this step (a handler step, or the slot's reuse).
RequestStep == \E r \in Reqs : pc'[r] # pc[r]

\* d is the listing of table t: one pair (id, title) per row of t, each row
\* of t once, by ascending id.
IsListingOf(d, t) ==
    /\ Len(d) = Cardinality(t)
    /\ \A i \in 1..Len(d) : Len(d[i]) = 2 /\ Row(d[i][1], d[i][2]) \in t
    /\ \A i, j \in 1..Len(d) : i < j => d[i][1] < d[j][1]

AlphaBeta == {Row(1, "Alpha"), Row(2, "Beta")}

\* C1: a successful GET /proposals on a table no external process changed
\* since the request arrived answers 200 with data = all rows of the table,
\* each as (id, title), in scan order, none added, dropped, duplicated or
\* changed; on rows (1, Alpha), (2, Beta) data is [[1, Alpha], [2, Beta]].
C1_ListsAllRows ==
    \A r \in Reqs :
        Ok(r) /\ Quiet(r) =>
            /\ resp[r].kind = "data"
            /\ IsListingOf(resp[r].data, table)
            /\ (table = AlphaBeta =>
                    resp[r].data = <<(<<1, "Alpha">>), (<<2, "Beta">>)>>)

C1_Witness == \E r \in Reqs : Ok(r) /\ Quiet(r) /\ table = AlphaBeta

\* C2: a GET /proposals that arrived when the database had no proposals
\* table, and that neither failed to open the store nor found it locked,
\* answers 200 with data = [], and the table exists afterwards (as long as
\* no external process changes the store).
C2_FreshDatabase ==
    \A r \in Reqs :
        Done(r) /\ Listing(r) /\ since[r] = "absent"
                /\ exc[r] \notin {"open", "locked"} =>
            /\ resp[r].status = 200
            /\ resp[r].kind = "data"
            /\ resp[r].data = <<>>
            /\ tableExists

C2_Witness == \E r \in Reqs : Ok(r) /\ since[r] = "absent" /\ resp[r].data = <<>>

\* C3: two successful GET /proposals responses, with no external change of
\* the store since the earlier of the two requests arrived, are identical.
C3_RepeatableRead ==
    \A r1, r2 \in Reqs :
        Ok(r1) /\ Ok(r2) /\ Quiet(r1) /\ Quiet(r2) =>
            /\ resp[r1].status = resp[r2].status
            /\ resp[r1].kind = resp[r2].kind
            /\ resp[r1].data = resp[r2].data

C3_Witness ==
    \E r1, r2 \in Reqs :
        /\ r1 # r2
        /\ Ok(r1) /\ Ok(r2) /\ Quiet(r1) /\ Quiet(r2)
        /\ Len(resp[r1].data) = 2

\* C4: no step of a request, successful or faulting, creates, updates or
\* deletes a row, or removes the table; the only change to the store is the
\* creation of the absent table, empty.
C4_NoRowWrites ==
    [][RequestStep =>
          /\ table' = table
          /\ (tableExists => tableExists')]_vars

C4_Witness ==
    \E r1, r2 \in Reqs : Ok(r1) /\ Faulted(r2) /\ table = AlphaBeta

\* C5: a request that cannot open the store, or whose statement fails, gets
\* a 500 response that carries no rows; the process stays up and every idle
\* slot still accepts a request for either endpoint.
C5_FaultIs500 ==
    /\ [](\A r \in Reqs : Faulted(r) =>
              /\ resp[r].status = 500
              /\ resp[r].kind = "error"
              /\ resp[r].data = <<>>)
    /\ [](up /\ \A r \in Reqs : pc[r] = "idle" =>
              /\ ENABLED Start(r, "/", "none")
              /\ ENABLED Start(r, "/proposals", "none"))
    /\ [][\A r \in Reqs :
            /\ pc[r] = "connect" /\ pc'[r] # "connect" /\ ~pathOK
                  => resp'[r].status = 500
            /\ pc[r] \in {"create", "select"} /\ pc'[r] # pc[r] /\ locked
                  => resp'[r].status = 500]_vars

C5_Witness ==
    \E r1, r2 \in Reqs :
        /\ Faulted(r1) /\ exc[r1] = "open" /\ resp[r1].status = 500
        /\ Ok(r2) /\ Len(resp[r2].data) > 0

\* C6: GET / is served in every state, answers 200 with the fixed message,
\* and never opens or touches the database.
C6_RootAlwaysOk ==
    /\ [](\A r \in Reqs :
              /\ pc[r] = "root" => ENABLED Root(r)
              /\ Done(r) /\ ep[r] = "/" =>
                    /\ resp[r].status = 200
                    /\ resp[r].kind = "message"
                    /\ resp[r].message = Message
                    /\ conn[r] = "none"
                    /\ exc[r] = "none")
    /\ [][\A r \in Reqs :
            pc[r] = "root" /\ pc'[r] # "root" =>
                pc'[r] = "done" /\ UNCHANGED <<store, env, conn>>]_vars

C6_Witness ==
    \E r1, r2 \in Reqs :
        /\ Done(r1) /\ ep[r1] = "/" /\ resp[r1].status = 200
        /\ Faulted(r2)
        /\ ~pathOK

\* C7: every response to a request that carries an Origin header, the
\* server-error responses included, permits that origin and allows
\* credentials.
C7_EveryResponseHasCors ==
    \A r \in Reqs :
        Done(r) /\ hdr[r] # "none" =>
            /\ resp[r].acao \in {"*", Origin}
            /\ resp[r].acac

\* C8: once an invocation has finished, normally or by a fault, the
\* connection it opened is closed.
C8_ConnectionsClosed == \A r \in Reqs : Done(r) => conn[r] # "open"

\* C9: the create-if-absent step runs before the select and leaves an
\* existing table and its rows unchanged; unless an external process changes
\* the schema during the request, the select never runs against a missing
\* table.
C9_CreateBeforeSelect ==
    /\ [][\A r \in Reqs :
            /\ pc'[r] = "select" /\ pc[r] # "select"
                  => pc[r] = "create" /\ tableExists'
            /\ pc[r] = "create" /\ pc'[r] = "select" /\ tableExists
                  => UNCHANGED store]_vars
    /\ [](\A r \in Reqs :
            /\ pc[r] = "select" /\ since[r] # "schema" => tableExists
            /\ exc[r] = "notable" => since[r] = "schema")

C9_Witness ==
    \E r \in Reqs :
        pc[r] = "select" /\ since[r] = "present" /\ table = AlphaBeta

\* C10: concurrent requests each hold their own connection while they run;
\* every successful response is the complete listing of the table as it was
\* at one instant of the request (when its SELECT started), whatever other
\* requests and the external writer do meanwhile; requests racing on a
\* database without the table all succeed, and the table, once there, is not
\* created again.
C10_IsolatedSnapshot ==
    /\ [](\A r \in Reqs :
            /\ pc[r] \in {"create", "select", "fetch", "close"}
                  => conn[r] = "open"
            /\ Ok(r) => IsListingOf(resp[r].data, view[r]))
    /\ [](\A r1, r2 \in Reqs :
            /\ r1 # r2
            /\ since[r1] = "absent" /\ since[r2] = "absent"
            /\ Done(r1) /\ Done(r2) /\ Listing(r1) /\ Listing(r2)
            /\ {exc[r1], exc[r2]} \cap {"open", "locked"} = {}
            => Ok(r1) /\ Ok(r2) /\ tableExists)
    /\ [][\A r \in Reqs :
            /\ view'[r] # view[r] /\ pc'[r] # "idle"
                  => pc[r] = "select" /\ view'[r] = table
            /\ pc[r] = "create" /\ pc'[r] # pc[r] /\ tableExists
                  => UNCHANGED store]_vars

C10_Witness ==
    \E r1, r2 \in Reqs :
        /\ Ok(r1) /\ Ok(r2)
        /\ Len(resp[r1].data) = 2 /\ Len(resp[r2].data) = 1
        /\ view[r1] # table /\ view[r2] # table

====
